---- MODULE Spec2Model ----
(***************************************************************************)
(* Model of openpnm/phases/mixtures/GenericMixture.py: a mixture phase      *)
(* whose composition (mole fractions, concentrations) is stored per pore    *)
(* and whose property reads fall back from the mixture's own store to a     *)
(* named component and then to a mole-fraction weighted blend.              *)
(*                                                                         *)
(* Numbers are IEEE 754 binary64 values, as numpy's float64: every          *)
(* operation rounds its exact result to nearest, ties to even, with signed  *)
(* zeros, infinities, nan, overflow and gradual underflow.  Significands    *)
(* have 53 bits and TLC's integers 32, so a significand is a sequence of    *)
(* limbs.  Arrays are sequences with one value per pore (or throat); a      *)
(* sequence of length 1 is a scalar that numpy broadcasts.                  *)
(*                                                                         *)
(* Strings are sequences of atoms.  "." and the letters of component        *)
(* names are atoms of one character; every other atom ("pore",              *)
(* "mole_fraction", "all", ...) stands for a fixed lower-case substring     *)
(* that ends in no component-name letter, so that split, rsplit and         *)
(* endswith on atoms agree with the same operations on characters.          *)
(***************************************************************************)
EXTENDS Integers, Sequences, FiniteSets, TLC

\* ------------------------------------------------------------------------
\* Bounds of the model
\* ------------------------------------------------------------------------
\* number of pores of the network
Np == 2
\* number of throats of the network
Nt == 1
\* number of operations called on the mixture in one run
MaxOps == 3

\* ------------------------------------------------------------------------
\* Naturals of any size: little-endian sequences of limbs below 2^14, the
\* most significant limb not 0; <<>> is 0
\* ------------------------------------------------------------------------
LimbBits == 14
Base == 16384

\* the function as a sequence: TLC evaluates the elements of a sequence
\* once, and those of [i \in S |-> e] at every application
Tuple(f) == f \o <<>>

Limb(a, i) == IF 1 <= i /\ i <= Len(a) THEN a[i] ELSE 0
Longer(a, b) == IF Len(a) >= Len(b) THEN Len(a) ELSE Len(b)

\* a without its leading limbs that are 0
Top(a) == CHOOSE k \in 0..Len(a) : (k = 0 \/ a[k] # 0) /\ \A j \in (k + 1)..Len(a) : a[j] = 0
Trim(a) == SubSeq(a, 1, Top(a))

\* u holds one number of 0..2*Base-2 per limb position: a carry enters
\* position i when a lower position overflows and every position between
\* passes the carry on
CarryIn(u, i) ==
    \E j \in 1..(i - 1) : u[j] >= Base /\ \A k \in (j + 1)..(i - 1) : u[k] >= Base - 1
Settle(u) ==
    Trim(Tuple([i \in 1..(Len(u) + 1) |->
                  (Limb(u, i) + (IF CarryIn(u, i) THEN 1 ELSE 0)) % Base]))
BAdd(a, b) == Settle(Tuple([i \in 1..Longer(a, b) |-> Limb(a, i) + Limb(b, i)]))

\* u holds one difference of limbs per position
BorrowIn(u, i) ==
    \E j \in 1..(i - 1) : u[j] < 0 /\ \A k \in (j + 1)..(i - 1) : u[k] <= 0
Borrow(u) ==
    Trim(Tuple([i \in 1..Len(u) |-> (u[i] - (IF BorrowIn(u, i) THEN 1 ELSE 0)) % Base]))
\* a - b for a >= b
BSub(a, b) == Borrow(Tuple([i \in 1..Longer(a, b) |-> Limb(a, i) - Limb(b, i)]))

Highest(D) == CHOOSE i \in D : \A j \in D : j <= i
CmpAt(a, b, D) == IF D = {} THEN 0 ELSE IF a[Highest(D)] < b[Highest(D)] THEN -1 ELSE 1
\* -1, 0, 1 as a < b, a = b, a > b
BCmp(a, b) ==
    IF Len(a) # Len(b) THEN (IF Len(a) < Len(b) THEN -1 ELSE 1)
    ELSE CmpAt(a, b, {i \in 1..Len(a) : a[i] # b[i]})

Prod(a, b, i, k) == IF k + 1 - i >= 1 THEN Limb(a, i) * Limb(b, k + 1 - i) ELSE 0
\* the products of limbs that meet at position k, a of at most four limbs
ColSum(a, b, k) == Prod(a, b, 1, k) + Prod(a, b, 2, k) + Prod(a, b, 3, k) + Prod(a, b, 4, k)
\* every position keeps its low limb and takes the overflow of the one below
Split(c) ==
    Tuple([i \in 1..(Len(c) + 1) |-> (Limb(c, i) % Base) + (Limb(c, i - 1) \div Base)])
\* a * b, a of at most four limbs
BMul(a, b) ==
    IF a = <<>> \/ b = <<>> THEN <<>>
    ELSE Settle(Split(Split(Tuple([k \in 1..(Len(a) + Len(b) - 1) |-> ColSum(a, b, k)]))))

ShlLimbs(b, r) ==
    Trim(Tuple([i \in 1..(Len(b) + 1) |->
                  ((Limb(b, i) * (2 ^ r)) % Base) + (Limb(b, i - 1) \div (2 ^ (LimbBits - r)))]))
\* a * 2^k
Shl(a, k) ==
    IF a = <<>> \/ k = 0 THEN a
    ELSE [i \in 1..(k \div LimbBits) |-> 0] \o ShlLimbs(a, k % LimbBits)

ShrLimbs(b, r) ==
    Trim(Tuple([i \in 1..Len(b) |->
                  (b[i] \div (2 ^ r)) + (Limb(b, i + 1) % (2 ^ r)) * (2 ^ (LimbBits - r))]))
\* a \div 2^k
Shr(a, k) ==
    IF k = 0 THEN a
    ELSE IF k \div LimbBits >= Len(a) THEN <<>>
    ELSE ShrLimbs(SubSeq(a, k \div LimbBits + 1, Len(a)), k % LimbBits)

\* bit k of a (bit 0 is the lowest)
Bit(a, k) == (Limb(a, k \div LimbBits + 1) \div (2 ^ (k % LimbBits))) % 2
\* the lowest k bits of a are all 0
LowBitsZero(a, k) ==
    /\ \A i \in 1..(k \div LimbBits) : Limb(a, i) = 0
    /\ Limb(a, k \div LimbBits + 1) % (2 ^ (k % LimbBits)) = 0

\* number of bits of a limb
Bits(x) == CHOOSE k \in 0..LimbBits : x < 2 ^ k /\ (k = 0 \/ x >= 2 ^ (k - 1))
\* number of bits of a
BitLen(a) == IF a = <<>> THEN 0 ELSE LimbBits * (Len(a) - 1) + Bits(a[Len(a)])

\* number of trailing 0 bits of a limb x # 0
Tz(x) == CHOOSE k \in 0..(LimbBits - 1) : x % (2 ^ (k + 1)) = 2 ^ k
Lowest(a) == CHOOSE i \in 1..Len(a) : a[i] # 0 /\ \A j \in 1..(i - 1) : a[j] = 0
\* number of trailing 0 bits of a # 0
BTz(a) == LimbBits * (Lowest(a) - 1) + Tz(a[Lowest(a)])

\* the limbs of an integer 0 <= x < 2^31
ToLimbs(x) == Trim(<<x % Base, (x \div Base) % Base, x \div (Base * Base)>>)

\* r * 2^14 + x for a limb x
Push(r, x) == IF r = <<>> /\ x = 0 THEN <<>> ELSE <<x>> \o r
\* the largest g <= guess with d * g <= r
RECURSIVE Digit(_, _, _)
Digit(r, d, guess) ==
    IF BCmp(BMul(d, <<guess>>), r) <= 0 THEN guess ELSE Digit(r, d, guess - 1)
\* the quotient limb guessed from the two leading limbs of r and the
\* leading limb of d: never too small, and at most 2 too large when the
\* leading limb of d is at least 2^13
Guess(r, d) ==
    IF (Limb(r, Len(d) + 1) * Base + Limb(r, Len(d))) \div d[Len(d)] >= Base THEN Base - 1
    ELSE (Limb(r, Len(d) + 1) * Base + Limb(r, Len(d))) \div d[Len(d)]
\* long division of n by d # 0, from limb i of n down, with r the
\* remainder so far and q the quotient limbs found: <<n \div d, n % d>>
RECURSIVE LimbDiv(_, _, _, _, _)
DivTake(n, d, i, r, q, g) ==
    IF g = 0 THEN LimbDiv(n, d, i - 1, r, <<0>> \o q)
    ELSE LimbDiv(n, d, i - 1, BSub(r, BMul(d, <<g>>)), <<g>> \o q)
DivStep(n, d, i, r, q) == DivTake(n, d, i, r, q, Digit(r, d, Guess(r, d)))
LimbDiv(n, d, i, r, q) ==
    IF i = 0 THEN <<Trim(q), r>>
    ELSE DivStep(n, d, i, Push(r, n[i]), q)
BDivMod(n, d) == LimbDiv(n, d, Len(n), <<>>, <<>>)

\* ------------------------------------------------------------------------
\* Numbers: IEEE 754 binary64
\* ------------------------------------------------------------------------
\* bits of the significand
Precision == 53
\* exponent of the lowest bit of a subnormal
MinExp == -1074
\* every finite value is below 2^MaxExp
MaxExp == 1024

\* <<class, sign, exponent, significand>>: class 0 is the finite value
\* (-1)^sign * significand * 2^exponent with an odd significand (or with
\* significand and exponent 0: the signed zero), class 1 is the signed
\* infinity and class 2 is nan
Zero == <<0, 0, 0, <<>>>>
NegZero == <<0, 1, 0, <<>>>>
One == <<0, 0, 0, <<1>>>>
NaN == <<2, 0, 0, <<>>>>

SignedZero(s) == <<0, s, 0, <<>>>>
SignedInf(s) == <<1, s, 0, <<>>>>
IsNaN(a) == a[1] = 2
IsInf(a) == a[1] = 1
IsZero(a) == a[1] = 0 /\ a[4] = <<>>
Xor(s, t) == IF s = t THEN 0 ELSE 1
Max3(x, y, z) == IF x >= y /\ x >= z THEN x ELSE IF y >= z THEN y ELSE z

Odd(s, e, m, tz) == <<0, s, e + tz, Shr(m, tz)>>
\* the finite value m * 2^e, m # 0, that needs no rounding
Canon(s, e, m) == Odd(s, e, m, BTz(m))
\* overflow gives infinity, underflow gives zero
InRange(s, e, m) ==
    IF m = <<>> THEN SignedZero(s)
    ELSE IF BitLen(m) + e > MaxExp THEN SignedInf(s)
    ELSE Canon(s, e, m)
\* round to nearest, ties to even: q is m without its lowest drop bits,
\* and goes up when the highest bit dropped is 1 and either something lies
\* below that bit or q is odd
RoundUp(m, q, sticky, drop) ==
    /\ drop > 0
    /\ Bit(m, drop - 1) = 1
    /\ (sticky \/ ~LowBitsZero(m, drop - 1) \/ Limb(q, 1) % 2 = 1)
Nearest(m, q, sticky, drop) ==
    IF RoundUp(m, q, sticky, drop) THEN BAdd(q, <<1>>) ELSE q
RoundDrop(s, e, m, sticky, drop) ==
    InRange(s, e + drop, Nearest(m, Shr(m, drop), sticky, drop))
\* the binary64 value nearest to m * 2^e (m # 0), or to a value just above
\* it when sticky holds (m then has at least 55 bits)
Round(s, e, m, sticky) ==
    RoundDrop(s, e, m, sticky, Max3(BitLen(m) - Precision, MinExp - e, 0))

\* an integer as a float
FromInt(n) ==
    IF n = 0 THEN Zero
    ELSE IF n < 0 THEN Canon(1, 0, ToLimbs(-n))
    ELSE Canon(0, 0, ToLimbs(n))

\* the exponent above the leading bit of a finite a # 0
TopExp(a) == a[3] + BitLen(a[4])
\* of finite non-zero a and b, the one that reaches higher and the other
High(a, b) == IF TopExp(a) >= TopExp(b) THEN a ELSE b
Low(a, b) == IF TopExp(a) >= TopExp(b) THEN b ELSE a
\* l lies below 2^-56 of the leading bit of h and only decides the rounding
Far(h, l) == TopExp(h) - TopExp(l) > 56
\* the exponent both significands are brought to: h is widened to 57 bits
\* when l is far
AddExp(h, l) ==
    IF Far(h, l) THEN TopExp(h) - 57 ELSE IF h[3] <= l[3] THEN h[3] ELSE l[3]
\* the significand, at the exponent e, of the one of h and l that is above e
Wide(h, l, e) == IF h[3] > e THEN Shl(h[4], h[3] - e) ELSE Shl(l[4], l[3] - e)
\* significands of h and l at the exponent e, w the widened one; a far l
\* counts as nothing when added and as a whole unit when taken away
SigHigh(h, e, w) == IF h[3] > e THEN w ELSE h[4]
SigLow(h, l, e, w) ==
    IF Far(h, l) THEN (IF h[2] = l[2] THEN <<>> ELSE <<1>>)
    ELSE IF h[3] > e THEN l[4] ELSE w
\* sm is the significand with the sign s, tm the one with the sign t
AddSign(s, sm, t, tm) == IF s = t \/ BCmp(sm, tm) > 0 THEN s ELSE t
AddSigs(s, sm, t, tm) ==
    IF s = t THEN BAdd(sm, tm)
    ELSE IF BCmp(sm, tm) > 0 THEN BSub(sm, tm) ELSE BSub(tm, sm)
\* x + (-x) is 0.0
AddAligned(s, sm, t, tm, e, sticky) ==
    IF s # t /\ sm = tm THEN Zero
    ELSE Round(AddSign(s, sm, t, tm), e, AddSigs(s, sm, t, tm), sticky)
AddWide(h, l, e, w) ==
    AddAligned(h[2], SigHigh(h, e, w), l[2], SigLow(h, l, e, w), e, Far(h, l))
AddOrdered(h, l, e) == AddWide(h, l, e, Wide(h, l, e))
AddFinite(a, b) == AddOrdered(High(a, b), Low(a, b), AddExp(High(a, b), Low(a, b)))

\* float addition
VAdd(a, b) ==
    IF IsNaN(a) \/ IsNaN(b) THEN NaN
    ELSE IF IsInf(a) THEN (IF IsInf(b) /\ b # a THEN NaN ELSE a)
    ELSE IF IsInf(b) THEN b
    ELSE IF IsZero(a) THEN (IF IsZero(b) THEN (IF a = NegZero /\ b = NegZero THEN NegZero ELSE Zero)
                            ELSE b)
    ELSE IF IsZero(b) THEN a
    ELSE AddFinite(a, b)

VNeg(a) == IF IsNaN(a) THEN NaN ELSE <<a[1], 1 - a[2], a[3], a[4]>>

\* float subtraction
VSub(a, b) == VAdd(a, VNeg(b))

\* float multiplication
VMul(a, b) ==
    IF IsNaN(a) \/ IsNaN(b) THEN NaN
    ELSE IF IsInf(a) \/ IsInf(b)
         THEN (IF IsZero(a) \/ IsZero(b) THEN NaN ELSE SignedInf(Xor(a[2], b[2])))
    ELSE IF IsZero(a) \/ IsZero(b) THEN SignedZero(Xor(a[2], b[2]))
    ELSE Round(Xor(a[2], b[2]), a[3] + b[3], BMul(a[4], b[4]), FALSE)

DivRound(s, e, qr) == Round(s, e, qr[1], qr[2] # <<>>)
\* ma * 2^(14 * t) by mb * 2^y
DivScaled(s, e, ma, t, mb, y) ==
    DivRound(s, e + y - LimbBits * t, BDivMod([i \in 1..t |-> 0] \o ma, Shl(mb, y)))
\* whole limbs that ma is raised by for a quotient of at least 56 bits
Raise(la, lb) == (lb + Precision + 3 - la + LimbBits - 1) \div LimbBits
\* mb is raised to a whole number of limbs and ma by whole limbs
DivLens(s, e, ma, la, mb, lb, y) == DivScaled(s, e, ma, Raise(la, lb + y), mb, y)
DivFinite(a, b) ==
    DivLens(Xor(a[2], b[2]), a[3] - b[3], a[4], BitLen(a[4]), b[4], BitLen(b[4]),
            (LimbBits - (BitLen(b[4]) % LimbBits)) % LimbBits)

\* numpy true division: x/0 is +-inf, 0/0 is nan (a warning, no exception)
VDiv(a, b) ==
    IF IsNaN(a) \/ IsNaN(b) THEN NaN
    ELSE IF IsInf(b) THEN (IF IsInf(a) THEN NaN ELSE SignedZero(Xor(a[2], b[2])))
    ELSE IF IsInf(a) THEN SignedInf(Xor(a[2], b[2]))
    ELSE IF IsZero(b) THEN (IF IsZero(a) THEN NaN ELSE SignedInf(Xor(a[2], b[2])))
    ELSE IF IsZero(a) THEN SignedZero(Xor(a[2], b[2]))
    ELSE DivFinite(a, b)

Negative(d) == ~IsNaN(d) /\ ~IsZero(d) /\ d[2] = 1
\* a < b on floats: every comparison with nan is False, -0.0 < 0.0 is False
VLt(a, b) == ~IsNaN(a) /\ ~IsNaN(b) /\ a # b /\ Negative(VSub(a, b))

\* a != b on floats: nan != x is True, -0.0 != 0.0 is False
VNe(a, b) == IsNaN(a) \/ IsNaN(b) \/ (a # b /\ ~(IsZero(a) /\ IsZero(b)))

\* the float nearest to n/d
Q(n, d) == VDiv(FromInt(n), FromInt(d))

\* ------------------------------------------------------------------------
\* Arrays
\* ------------------------------------------------------------------------
ALen(a, b) == IF Len(a) >= Len(b) THEN Len(a) ELSE Len(b)
At(a, i) == IF Len(a) = 1 THEN a[1] ELSE a[i]

AAdd(a, b) == Tuple([i \in 1..ALen(a, b) |-> VAdd(At(a, i), At(b, i))])
ASub(a, b) == Tuple([i \in 1..ALen(a, b) |-> VSub(At(a, i), At(b, i))])
AMul(a, b) == Tuple([i \in 1..ALen(a, b) |-> VMul(At(a, i), At(b, i))])
ADiv(a, b) == Tuple([i \in 1..ALen(a, b) |-> VDiv(At(a, i), At(b, i))])

\* np.any(a != 1.0)
AnyNotOne(a) == \E i \in 1..Len(a) : VNe(a[i], One)
\* np.any(np.isnan(a))
AnyNaN(a) == \E i \in 1..Len(a) : IsNaN(a[i])
\* a scalar
Scalar(v) == <<v>>
\* an array with the same value at every one of n instances
Full(v, n) == Tuple([i \in 1..n |-> v])

\* ------------------------------------------------------------------------
\* Strings: keys and component names
\* ------------------------------------------------------------------------
Dot == "."

\* 'element.prop'
K2(el, prop) == <<el, Dot, prop>>
\* 'element.prop.' + name
K3(el, prop, name) == <<el, Dot, prop, Dot>> \o name

\* index of the last "." of a string, 0 when it has none
LastDot(key) ==
    LET D == {i \in 1..Len(key) : key[i] = Dot}
    IN  IF D = {} THEN 0 ELSE CHOOSE i \in D : \A j \in D : j <= i
\* index of the first "." of a string, Len + 1 when it has none
FirstDot(key) ==
    LET D == {i \in 1..Len(key) : key[i] = Dot}
    IN  IF D = {} THEN Len(key) + 1 ELSE CHOOSE i \in D : \A j \in D : i <= j

\* key.split('.')[-1]
LastSeg(key) == SubSeq(key, LastDot(key) + 1, Len(key))
\* key.rsplit('.', maxsplit=1)[0]
RStrip(key) == IF LastDot(key) = 0 THEN key ELSE SubSeq(key, 1, LastDot(key) - 1)
\* key.split('.')[0]
FirstSeg(key) == SubSeq(key, 1, FirstDot(key) - 1)
\* key.endswith(name)
EndsWith(key, name) ==
    /\ Len(name) <= Len(key)
    /\ SubSeq(key, Len(key) - Len(name) + 1, Len(key)) = name

\* x in l, for a list l
InList(x, l) == \E i \in 1..Len(l) : l[i] = x
\* the elements of a list
Elems(l) == {l[i] : i \in 1..Len(l)}
\* every list that holds each element of the set S once
RECURSIVE Orders(_)
Orders(S) ==
    IF S = {} THEN {<<>>}
    ELSE UNION {{<<x>> \o t : t \in Orders(S \ {x})} : x \in S}
\* l.remove(x) of a list that holds x: the first occurrence goes
RECURSIVE ListRemove(_, _)
ListRemove(l, x) ==
    IF l = <<>> THEN <<>>
    ELSE IF Head(l) = x THEN Tail(l)
    ELSE <<Head(l)>> \o ListRemove(Tail(l), x)

\* the names of the phase objects of the model
NameA == <<"A">>
NameBA == <<"B", "A">>
NameC == <<"C">>
NameZ == <<"Z">>
\* the phase objects that belong to the mixture's project, by name
Project == {NameA, NameBA, NameC}
\* Z names a phase object that is in no project

PORE == <<"pore">>
THROAT == <<"throat">>
\* 'pore.mole_fraction.all'
MFAll == K2("pore", "mole_fraction") \o <<Dot, "all">>
\* element + '.mole_fraction.' + name
MFKey(element, name) == element \o <<Dot, "mole_fraction", Dot>> \o name
\* 'pore.concentration.' + name
ConcKey(name) == K3("pore", "concentration", name)

\* ------------------------------------------------------------------------
\* State
\* ------------------------------------------------------------------------
VARIABLES
    store,       \* the mixture's own dict: key -> array
    components,  \* settings['components']: the list of registered names
    compStore,   \* the dict of every phase object of the project
    nops,        \* number of operations called so far
    pre,         \* store and components before the last operation
    last         \* the last operation: its arguments and its outcome

vars == <<store, components, compStore, nops, pre, last>>

\* ------------------------------------------------------------------------
\* Collaborators: the base property store, the project, the components
\* ------------------------------------------------------------------------
\* Base._count(element)
_count(element) == IF element = PORE THEN Np ELSE Nt

\* the base store sizes a scalar to one value per instance of the element
Broadcast(value, n) == IF Len(value) = 1 THEN Full(value[1], n) ELSE value

\* dict with key bound to value
DictSet(s, key, value) ==
    [k \in (DOMAIN s) \cup {key} |-> IF k = key THEN value ELSE s[k]]

\* super().__setitem__(key, value)
BaseSet(s, key, value) == DictSet(s, key, Broadcast(value, _count(FirstSeg(key))))

\* outcomes of a call: the store it leaves, the value it returns, its error
Ok(s, v) == [s |-> s, v |-> v, e |-> "none"]
Err(s, e) == [s |-> s, v |-> <<>>, e |-> e]

\* the dicts of the project's phase objects
ComponentData ==
    [n \in Project |->
        IF n = NameA
        THEN (K2("pore", "density") :> Tuple([i \in 1..Np |-> FromInt(i)]))
             @@ (K2("pore", "viscosity") :> Full(FromInt(3), Np))
             @@ (K2("throat", "density") :> Full(FromInt(5), Nt))
        ELSE IF n = NameBA
        THEN (K2("pore", "density") :> Full(FromInt(4), Np))
             @@ (K2("pore", "concentration") :> Full(FromInt(3), Np))
        ELSE (K2("pore", "density") :> Full(FromInt(6), Np))
             @@ (K2("pore", "concentration") :> Full(FromInt(2), Np))]

\* self.components (_get_comps) resolves every registered name in the project
\* and raises KeyError when one is not there
_get_comps(reg) == IF \A i \in 1..Len(reg) : reg[i] \in Project THEN "none" ELSE "KeyError"

\* ------------------------------------------------------------------------
\* Key resolver (__getitem__, __setitem__, props, interleave_data) and the
\* aggregate (_update_total_molfrac).  A read can write the aggregate, so
\* every operator returns the store it leaves behind.  cs holds the dicts
\* of the project's phase objects (compStore).  act is the set of
\* reads in progress (key and store): re-entering one of them repeats the
\* same calls for ever, which Python ends with RecursionError.
\* ------------------------------------------------------------------------
\* props(deep): the keys of the mixture, with deep=True also prop + '.' + name
\* for every property of every registered component
props(cs, s, reg, deep) ==
    (IF deep
     THEN UNION {{p \o <<Dot>> \o n : p \in DOMAIN cs[n]} : n \in Elems(reg)}
     ELSE {}) \cup DOMAIN s

\* __setitem__(key, value)
__setitem__(cs, s, reg, key, value) ==
    IF _get_comps(reg) # "none" THEN Err(s, "KeyError")
    ELSE IF key \in (props(cs, s, reg, TRUE) \ props(cs, s, reg, FALSE))
    THEN Err(s, "AlreadyAssigned")
    ELSE Ok(BaseSet(s, key, value), <<>>)

RECURSIVE __getitem__(_, _, _, _, _)
RECURSIVE interleave_data(_, _, _, _, _)
RECURSIVE _update_total_molfrac(_, _, _, _)
RECURSIVE SumMoleFractions(_, _, _, _, _, _)
RECURSIVE BlendComponents(_, _, _, _, _, _, _)

\* the loop of _update_total_molfrac: mf += self['pore.mole_fraction.' + name]
SumMoleFractions(cs, s, reg, i, mf, act) ==
    IF i > Len(reg) THEN Ok(s, mf)
    ELSE LET Accumulate(r) ==
                 IF r.e # "none" THEN r
                 ELSE SumMoleFractions(cs, r.s, reg, i + 1, AAdd(mf, r.v), act)
         IN  Accumulate(__getitem__(cs, s, reg, MFKey(PORE, reg[i]), act))

_update_total_molfrac(cs, s, reg, act) ==
    IF _get_comps(reg) # "none" THEN Err(s, "KeyError")
    ELSE LET StoreTotal(r) ==
                 IF r.e # "none" THEN r
                 ELSE __setitem__(cs, r.s, reg, MFAll, r.v)
         IN  StoreTotal(SumMoleFractions(cs, s, reg, 1, Scalar(Zero), act))

\* the loop of interleave_data adding comp[prop] without its mole fraction
blend_unweighted(cs, s, reg, prop, i, vals, act) ==
    IF i > Len(reg) THEN Ok(s, vals)
    ELSE IF prop \notin DOMAIN cs[reg[i]] THEN Err(s, "KeyError")
    ELSE BlendComponents(cs, s, reg, prop, i + 1, AAdd(vals, cs[reg[i]][prop]), act)

\* the loop of interleave_data: vals += comp[prop]*self[element.mole_fraction.name]
BlendComponents(cs, s, reg, prop, i, vals, act) ==
    IF i > Len(reg) THEN Ok(s, vals)
    ELSE IF prop \notin DOMAIN cs[reg[i]] THEN Err(s, "KeyError")
    ELSE LET Weigh(r) ==
                 IF r.e # "none" THEN r
                 ELSE BlendComponents(cs, r.s, reg, prop, i + 1,
                                      AAdd(vals, AMul(cs[reg[i]][prop], r.v)), act)
         IN  Weigh(__getitem__(cs, s, reg, MFKey(FirstSeg(prop), reg[i]), act))

\* the test of interleave_data on 'pore.mole_fraction.all' (lines 291-296)
CheckUnity(cs, s, reg, act) ==
    LET Retest(r3) ==
            IF r3.e # "none" THEN r3
            ELSE IF AnyNotOne(r3.v) THEN Err(r3.s, "NotUnity")
            ELSE Ok(r3.s, <<>>)
        Updated(r2) ==
            IF r2.e # "none" THEN r2
            ELSE Retest(__getitem__(cs, r2.s, reg, MFAll, act))
        Test(r1) ==
            IF r1.e # "none" THEN r1
            ELSE IF ~AnyNotOne(r1.v) THEN Ok(r1.s, <<>>)
            ELSE Updated(_update_total_molfrac(cs, r1.s, reg, act))
    IN  Test(__getitem__(cs, s, reg, MFAll, act))

\* super().interleave_data(prop): nothing else holds the bare key
BaseInterleave(s, prop) == Err(s, "KeyError")

interleave_data(cs, s, reg, prop, act) ==
    LET Fallback(b) == IF b.e = "KeyError" THEN BaseInterleave(b.s, prop) ELSE b
        Blend(chk) ==
            IF chk.e # "none" THEN chk
            ELSE Fallback(IF _get_comps(reg) # "none" THEN Err(chk.s, "KeyError")
                          ELSE BlendComponents(cs, chk.s, reg, prop, 1,
                                               Full(Zero, _count(FirstSeg(prop))), act))
    IN  Blend(IF FirstSeg(prop) = PORE THEN CheckUnity(cs, s, reg, act) ELSE Ok(s, <<>>))

\* __getitem__ that asks the component for the whole key, name included
getitem_unstripped(cs, s, reg, key, act) ==
    IF key \in DOMAIN s THEN Ok(s, s[key])
    ELSE IF <<key, s>> \in act THEN Err(s, "RecursionError")
    ELSE LET Ask(name) ==
                 IF /\ InList(name, reg)
                    /\ name \in Project
                    /\ key \in DOMAIN cs[name]
                 THEN Ok(s, cs[name][key])
                 ELSE interleave_data(cs, s, reg, key, act \cup {<<key, s>>})
         IN  Ask(LastSeg(key))

__getitem__(cs, s, reg, key, act) ==
    IF key \in DOMAIN s THEN Ok(s, s[key])
    ELSE IF <<key, s>> \in act THEN Err(s, "RecursionError")
    ELSE LET Delegate(name, prop) ==
                 IF /\ InList(name, reg)
                    /\ name \in Project
                    /\ prop \in DOMAIN cs[name]
                 THEN Ok(s, cs[name][prop])
                 ELSE interleave_data(cs, s, reg, key, act \cup {<<key, s>>})
         IN  Delegate(LastSeg(key), RStrip(key))

\* ------------------------------------------------------------------------
\* Composition: set_mole_fraction, set_concentration, update_mole_fractions
\* A component argument is [str |-> it is a name string, name |-> its name].
\* ------------------------------------------------------------------------
\* the checks that open set_concentration and set_mole_fraction
\* (lines 178-183, 210-216): the error they raise, or "none"
CheckComponent(reg, comp) ==
    IF comp.str /\ (_get_comps(reg) # "none" \/ ~InList(comp.name, reg))
    THEN "KeyError"
    ELSE IF comp.name \notin Project THEN "NotInProject"
    ELSE IF _get_comps(reg) # "none" THEN "KeyError"
    ELSE IF ~InList(comp.name, reg) THEN "NotInMixture"
    ELSE "none"

set_mole_fraction(cs, s, reg, comp, values) ==
    IF CheckComponent(reg, comp) # "none" THEN Err(s, CheckComponent(reg, comp))
    ELSE LET Total(r1) ==
                 IF r1.e # "none" THEN r1
                 ELSE _update_total_molfrac(cs, r1.s, reg, {})
         IN  Total(IF Len(values) > 0
                   THEN __setitem__(cs, s, reg, MFKey(PORE, comp.name), values)
                   ELSE Ok(s, <<>>))

RECURSIVE ResetLoop(_, _, _, _)
\* the loop of _reset_molefracs over settings['components']
ResetLoop(cs, s, reg, i) ==
    IF i > Len(reg) THEN Ok(s, <<>>)
    ELSE LET ResetNext(r) == IF r.e # "none" THEN r ELSE ResetLoop(cs, r.s, reg, i + 1)
         IN  ResetNext(__setitem__(cs, s, reg, MFKey(PORE, reg[i]), Scalar(NaN)))

_reset_molefracs(cs, s, reg) == ResetLoop(cs, s, reg, 1)

set_concentration(cs, s, reg, comp, values) ==
    IF CheckComponent(reg, comp) # "none" THEN Err(s, CheckComponent(reg, comp))
    ELSE IF Len(values) = 0 THEN Ok(s, <<>>)
    ELSE LET Reset(r1) ==
                 IF r1.e # "none" THEN r1
                 ELSE _reset_molefracs(cs, r1.s, reg)
         IN  Reset(__setitem__(cs, s, reg, ConcKey(comp.name), values))

RECURSIVE HasNans(_, _, _, _, _)
\* the loop that fills hasnans (lines 141-142); v is the list of flags
HasNans(cs, s, reg, i, flags) ==
    IF i > Len(reg) THEN Ok(s, flags)
    ELSE LET Flag(r) ==
                 IF r.e # "none" THEN r
                 ELSE HasNans(cs, r.s, reg, i + 1, Append(flags, AnyNaN(r.v)))
         IN  Flag(__getitem__(cs, s, reg, MFKey(PORE, reg[i]), {}))

\* the list without its i-th element (list.pop(i))
PopAt(l, i) == SubSeq(l, 1, i - 1) \o SubSeq(l, i + 1, Len(l))

\* an outcome together with the dicts of the phase objects it leaves
WithComps(r, cs) == [s |-> r.s, v |-> r.v, e |-> r.e, cs |-> cs]

\* InPlace acting on the component's own dict, whoever holds the array
in_place_on_component(cs, s, reg, key, value) ==
    [cs EXCEPT ![LastSeg(key)] = DictSet(cs[LastSeg(key)], RStrip(key), value)]

\* the dicts of the phase objects after an in-place operation (-=) on the
\* array self[key] hands out: __getitem__ returns the array itself, the
\* mixture's when the mixture stores the key, the component's when the read
\* is delegated to it, a new one when the values are interleaved
InPlace(cs, s, reg, key, value) ==
    IF key \in DOMAIN s THEN cs
    ELSE IF /\ InList(LastSeg(key), reg)
            /\ LastSeg(key) \in Project
            /\ RStrip(key) \in DOMAIN cs[LastSeg(key)]
    THEN [cs EXCEPT ![LastSeg(key)][RStrip(key)] = value]
    ELSE cs

RECURSIVE SubtractLoop(_, _, _, _, _, _)
\* lines 147-149: self[key] -= self['pore.mole_fraction.' + item.name]
SubtractLoop(cs, s, reg, rest, i, key) ==
    IF i > Len(rest) THEN WithComps(Ok(s, <<>>), cs)
    ELSE LET SubtractNext(w, cs2) ==
                 IF w.e # "none" THEN WithComps(w, cs2)
                 ELSE SubtractLoop(cs2, w.s, reg, rest, i + 1, key)
             Assign(g2, value, cs2) ==
                 SubtractNext(__setitem__(cs2, g2.s, reg, key, value), cs2)
             Subtract(g1, g2) ==
                 IF g2.e # "none" THEN WithComps(g2, cs)
                 ELSE Assign(g2, ASub(g1.v, g2.v),
                             InPlace(cs, s, reg, key, ASub(g1.v, g2.v)))
             ReadOther(g1) ==
                 IF g1.e # "none" THEN WithComps(g1, cs)
                 ELSE Subtract(g1, __getitem__(cs, g1.s, reg, MFKey(PORE, rest[i]), {}))
         IN  ReadOther(__getitem__(cs, s, reg, key, {}))

RECURSIVE TotalConc(_, _, _, _, _)
\* lines 152-154: total_conc += self['pore.concentration.' + item.name]
TotalConc(cs, s, reg, i, total) ==
    IF i > Len(reg) THEN Ok(s, total)
    ELSE LET AddConc(r) ==
                 IF r.e # "none" THEN r
                 ELSE TotalConc(cs, r.s, reg, i + 1, AAdd(total, r.v))
         IN  AddConc(__getitem__(cs, s, reg, ConcKey(reg[i]), {}))

RECURSIVE NormalizeLoop(_, _, _, _, _)
\* lines 155-157: mole fraction = concentration / total_conc
NormalizeLoop(cs, s, reg, i, total) ==
    IF i > Len(reg) THEN Ok(s, <<>>)
    ELSE LET NormalizeNext(w) ==
                 IF w.e # "none" THEN w
                 ELSE NormalizeLoop(cs, w.s, reg, i + 1, total)
             Divide(r) ==
                 IF r.e # "none" THEN r
                 ELSE NormalizeNext(__setitem__(cs, r.s, reg, MFKey(PORE, reg[i]),
                                                ADiv(r.v, total)))
         IN  Divide(__getitem__(cs, s, reg, ConcKey(reg[i]), {}))

\* lines 144-149: one component has nans, it takes what is left of 1.0
FreeSolve(cs, s, reg, flags) ==
    LET SubtractRest(idx, r1) ==
            IF r1.e # "none" THEN WithComps(r1, cs)
            ELSE SubtractLoop(cs, r1.s, reg, PopAt(reg, idx), 1, MFKey(PORE, reg[idx]))
        SetOne(idx) ==
            SubtractRest(idx, __setitem__(cs, s, reg, MFKey(PORE, reg[idx]), Scalar(One)))
    IN  SetOne(CHOOSE i \in 1..Len(flags) : flags[i] /\ \A j \in 1..(i - 1) : ~flags[j])

\* lines 150-157: all or none have values, use the concentrations
FromConcentrations(cs, s, reg) ==
    LET Normalize(t) ==
            IF t.e # "none" THEN t
            ELSE NormalizeLoop(cs, t.s, reg, 1, t.v)
    IN  Normalize(TotalConc(cs, s, reg, 1, Scalar(Zero)))

\* hasnans.count(True)
CountTrue(flags) == Cardinality({i \in 1..Len(flags) : flags[i]})

\* free is the name of free_comp, <<>> when free_comp is None; the outcome
\* holds the dicts of the phase objects the call leaves (cs)
update_mole_fractions(cs, s, reg, free) ==
    LET Finish(b) ==
            IF b.e # "none" THEN b
            ELSE WithComps(_update_total_molfrac(b.cs, b.s, reg, {}), b.cs)
        Solve(h) ==
            IF h.e # "none" THEN WithComps(h, cs)
            ELSE Finish(IF CountTrue(h.v) = 1
                        THEN FreeSolve(cs, h.s, reg, h.v)
                        ELSE WithComps(FromConcentrations(cs, h.s, reg), cs))
        Scan(r0) ==
            IF r0.e # "none" THEN WithComps(r0, cs)
            ELSE IF _get_comps(reg) # "none" THEN WithComps(Err(r0.s, "KeyError"), cs)
            ELSE Solve(HasNans(cs, r0.s, reg, 1, <<>>))
    IN  Scan(IF free # <<>>
             THEN __setitem__(cs, s, reg, MFKey(PORE, free), Scalar(NaN))
             ELSE Ok(s, <<>>))

\* ------------------------------------------------------------------------
\* Registry: set_component, _set_comps, _del_comps
\* ------------------------------------------------------------------------
\* _set_comps that keeps the extended list as it is, duplicates included
set_comps_keeping_duplicates(reg, names) == {reg \o names}

\* the lists _set_comps can leave: list(set(temp)) has every name once, in
\* the order of Python's string hashing, which differs from run to run
_set_comps(reg, names) == Orders(Elems(reg) \cup Elems(names))

RECURSIVE RemoveLoop(_, _, _)
\* lines 228-229: settings['components'].remove(comp.name); list.remove
\* raises ValueError for a name that is not in the list
RemoveLoop(reg, names, i) ==
    IF i > Len(names) THEN [reg |-> reg, e |-> "none"]
    ELSE IF ~InList(names[i], reg) THEN [reg |-> reg, e |-> "ValueError"]
    ELSE RemoveLoop(ListRemove(reg, names[i]), names, i + 1)

\* the keys the loop of lines 231-233 pops: comp is the loop variable of
\* the loop of line 228, which still holds the last component of the list
PoppedKeys(s, names) == {k \in DOMAIN s : EndsWith(k, names[Len(names)])}

\* _del_comps(components), names the non-empty list of their names:
\* [s, reg, e]
_del_comps(cs, s, reg, names) ==
    LET Left(r, w) == [s |-> w.s, reg |-> r.reg, e |-> w.e]
        Pop(r) ==
            IF r.e # "none" THEN [s |-> s, reg |-> r.reg, e |-> r.e]
            ELSE Left(r, __setitem__(cs, [k \in (DOMAIN s) \ PoppedKeys(s, names) |-> s[k]],
                                     r.reg, MFAll, Scalar(NaN)))
    IN  Pop(RemoveLoop(reg, names, 1))

\* ------------------------------------------------------------------------
\* check_mixture_health: v is <<too_low, too_high>>, sets of pore indices
\* (numpy counts the pores from 0)
\* ------------------------------------------------------------------------
check_mixture_health(cs, s, reg) ==
    LET Health(g1, g2) ==
            IF g2.e # "none" THEN g2
            ELSE Ok(g2.s,
                    <<{i - 1 : i \in {j \in 1..Len(g1.v) : VLt(g1.v[j], One)}},
                      {i - 1 : i \in {j \in 1..Len(g2.v) : VLt(One, g2.v[j])}}>>)
        TooHigh(g1) ==
            IF g1.e # "none" THEN g1
            ELSE Health(g1, __getitem__(cs, g1.s, reg, MFAll, {}))
        TooLow(u) ==
            IF u.e # "none" THEN u
            ELSE TooHigh(__getitem__(cs, u.s, reg, MFAll, {}))
    IN  TooLow(_update_total_molfrac(cs, s, reg, {}))

\* ------------------------------------------------------------------------
\* Construction
\* ------------------------------------------------------------------------
\* an object argument and a name-string argument
Obj(name) == [str |-> FALSE, name |-> name]
Str(name) == [str |-> TRUE, name |-> name]

RECURSIVE InitLoop(_, _, _, _, _)
\* the loop of __init__ (lines 57-59): every mixture it can leave
InitLoop(cs, s, reg, list, i) ==
    IF i > Len(list) THEN {[s |-> s, reg |-> reg]}
    ELSE LET Seeded(reg2, r) ==
                 IF r.e = "none" THEN InitLoop(cs, r.s, reg2, list, i + 1) ELSE {}
         IN  UNION {Seeded(reg2, set_mole_fraction(cs, s, reg2, Obj(list[i]), Scalar(NaN)))
                    : reg2 \in _set_comps(reg, <<list[i]>>)}

\* __init__(components=list): the mixtures the constructor can return
Constructed(cs, list) ==
    {[s |-> __setitem__(cs, m.s, m.reg, MFAll, Scalar(NaN)).s, reg |-> m.reg]
     : m \in InitLoop(cs, <<>>, <<>>, list, 1)}

\* ------------------------------------------------------------------------
\* Inputs
\* ------------------------------------------------------------------------
\* an array that holds v at the first instance and w at the others
FirstOther(v, w) == Tuple([i \in 1..Np |-> IF i = 1 THEN v ELSE w])

InitComponents == {<<>>, <<NameA>>, <<NameA, NameBA>>, <<NameA, NameBA, NameC>>}
CompArgs == {Obj(NameA), Obj(NameBA), Obj(NameC), Obj(NameZ), Str(NameC)}
MoleFractionValues ==
    {Scalar(Q(3, 10)), Scalar(Q(1, 2)), Scalar(Q(6, 5)), FirstOther(Q(2, 5), Q(1, 2))}
ConcentrationValues == {Scalar(FromInt(2)), Scalar(FromInt(3))}
FreeArgs == {<<>>, NameA, NameBA, NameC}
\* set_component takes any phase object, also one that is in no project
AddArgs == {<<NameA>>, <<NameBA>>, <<NameC>>, <<NameA, NameC>>, <<NameZ>>}
RemoveArgs == {<<NameA>>, <<NameBA>>, <<NameC>>, <<NameA, NameC>>, <<NameC, NameA>>}
ReadKeys ==
    {K2("pore", "density"), K2("pore", "viscosity"), K2("throat", "density"),
     K3("pore", "density", NameA), ConcKey(NameBA), MFAll}
WriteKeys ==
    {K2("pore", "density"), K3("pore", "density", NameA), ConcKey(NameBA),
     MFKey(THROAT, NameA), MFKey(PORE, NameA)}
WriteValues == {Scalar(Q(1, 2)), Scalar(One)}

\* ------------------------------------------------------------------------
\* Operations
\* ------------------------------------------------------------------------
NoCall ==
    [op |-> "init", comp |-> Obj(<<>>), names |-> <<>>, key |-> <<>>,
     val |-> <<>>, err |-> "none", ret |-> <<>>]

Init ==
    /\ compStore = ComponentData
    /\ \E list \in InitComponents : \E m \in Constructed(ComponentData, list) :
          /\ store = m.s
          /\ components = m.reg
    /\ nops = 0
    /\ pre = [store |-> store, components |-> components]
    /\ last = NoCall

\* a call is made while the run has calls left
CanCall == nops < MaxOps

\* what every operation does besides its own effect; cs is what it leaves
\* of the dicts of the phase objects
CalledLeaving(cs) ==
    /\ nops' = nops + 1
    /\ pre' = [store |-> store, components |-> components]
    /\ compStore' = cs

Called == CalledLeaving(compStore)

\* set_component(component, mode='add')
Add ==
    /\ CanCall
    /\ \E names \in AddArgs : \E reg \in _set_comps(components, names) :
            /\ Called
            /\ components' = reg
            /\ UNCHANGED store
            /\ last' = [NoCall EXCEPT !.op = "add", !.names = names]

\* set_component(component, mode='remove')
Remove ==
    /\ CanCall
    /\ \E names \in RemoveArgs :
            \E r \in {_del_comps(compStore, store, components, names)} :
                /\ Called
                /\ components' = r.reg
                /\ store' = r.s
                /\ last' = [NoCall EXCEPT !.op = "remove", !.names = names, !.err = r.e]

SetConcentration ==
    /\ CanCall
    /\ \E comp \in CompArgs, values \in ConcentrationValues :
            \E r \in {set_concentration(compStore, store, components, comp, values)} :
                /\ Called
                /\ store' = r.s
                /\ UNCHANGED components
                /\ last' = [NoCall EXCEPT !.op = "set_concentration", !.comp = comp,
                                          !.val = values, !.err = r.e]

SetMoleFraction ==
    /\ CanCall
    /\ \E comp \in CompArgs, values \in MoleFractionValues :
            \E r \in {set_mole_fraction(compStore, store, components, comp, values)} :
                /\ Called
                /\ store' = r.s
                /\ UNCHANGED components
                /\ last' = [NoCall EXCEPT !.op = "set_mole_fraction", !.comp = comp,
                                          !.val = values, !.err = r.e]

UpdateMoleFractions ==
    /\ CanCall
    /\ \E free \in FreeArgs :
            \E r \in {update_mole_fractions(compStore, store, components, free)} :
                /\ CalledLeaving(r.cs)
                /\ store' = r.s
                /\ UNCHANGED components
                /\ last' = [NoCall EXCEPT !.op = "update_mole_fractions", !.names = free,
                                          !.err = r.e]

CheckMixtureHealth ==
    /\ CanCall
    /\ \E r \in {check_mixture_health(compStore, store, components)} :
            /\ Called
            /\ store' = r.s
            /\ UNCHANGED components
            /\ last' = [NoCall EXCEPT !.op = "check_mixture_health", !.err = r.e,
                                      !.ret = r.v]

\* mixture[key]
Read ==
    /\ CanCall
    /\ \E key \in ReadKeys :
            \E r \in {__getitem__(compStore, store, components, key, {})} :
                /\ Called
                /\ store' = r.s
                /\ UNCHANGED components
                /\ last' = [NoCall EXCEPT !.op = "read", !.key = key, !.err = r.e,
                                          !.ret = r.v]

\* mixture.interleave_data(prop), called on the mixture itself: it tests and
\* rewrites the aggregate and blends the components whether or not the
\* mixture stores the key or a component answers for it
InterleaveData ==
    /\ CanCall
    /\ \E prop \in ReadKeys :
            \E r \in {interleave_data(compStore, store, components, prop, {})} :
                /\ Called
                /\ store' = r.s
                /\ UNCHANGED components
                /\ last' = [NoCall EXCEPT !.op = "interleave_data", !.key = prop,
                                          !.err = r.e, !.ret = r.v]

\* mixture[key] = value
Write ==
    /\ CanCall
    /\ \E key \in WriteKeys, value \in WriteValues :
            \E r \in {__setitem__(compStore, store, components, key, value)} :
                /\ Called
                /\ store' = r.s
                /\ UNCHANGED components
                /\ last' = [NoCall EXCEPT !.op = "write", !.key = key, !.val = value,
                                          !.err = r.e]

Next ==
    \/ Add
    \/ Remove
    \/ SetConcentration
    \/ SetMoleFraction
    \/ UpdateMoleFractions
    \/ CheckMixtureHealth
    \/ Read
    \/ InterleaveData
    \/ Write

Spec == Init /\ [][Next]_vars

\* the composition calls and a final key read: no direct key write, no
\* health check, and nothing after the read
CompositionCall ==
    /\ last.op # "read"
    /\ (Add \/ Remove \/ SetConcentration \/ SetMoleFraction \/ UpdateMoleFractions)

FinalRead == last.op # "read" /\ Read

NextCalls == CompositionCall \/ FinalRead

SpecCalls == Init /\ [][NextCalls]_vars

\* ------------------------------------------------------------------------
\* Vocabulary of the properties
\* ------------------------------------------------------------------------
AllNaN(a) == \A i \in 1..Len(a) : IsNaN(a[i])
AllOne(a) == \A i \in 1..Len(a) : a[i] = One

\* a bare key 'pore.<property>' or 'throat.<property>'
BareKeys == {K2("pore", "density"), K2("pore", "viscosity"), K2("throat", "density")}

\* the mole fraction a store holds for a component: unset when it holds none
StoredMF(s, n) ==
    IF MFKey(PORE, n) \in DOMAIN s THEN s[MFKey(PORE, n)] ELSE Full(NaN, Np)

RECURSIVE SumStored(_, _, _)
\* element-wise sum of the stored mole fractions of the components
\* reg[1..i], added to 0.0 one after the other in the order of the registry
SumStored(s, reg, i) ==
    IF i = 0 THEN Full(Zero, Np)
    ELSE AAdd(SumStored(s, reg, i - 1), StoredMF(s, reg[i]))

\* the component owns element.property and the mixture does not store
\* element.property.name: write protection refuses a write of that key
Protected(s, reg, key) ==
    /\ key \notin DOMAIN s
    /\ InList(LastSeg(key), reg)
    /\ LastSeg(key) \in Project
    /\ RStrip(key) \in DOMAIN compStore[LastSeg(key)]

\* s and t hold the same keys and values, the keys of K aside
SameExcept(s, t, K) ==
    /\ (DOMAIN s) \ K = (DOMAIN t) \ K
    /\ \A k \in (DOMAIN s) \ K : s[k] = t[k]

\* the last call named a component that is registered and in the project
OnRegistered ==
    /\ InList(last.comp.name, pre.components)
    /\ last.comp.name \in Project

\* ------------------------------------------------------------------------
\* C1
\* ------------------------------------------------------------------------
\* C1: after any add, remove, set_concentration, set_mole_fraction and
\* update_mole_fractions calls, a read of an unstored bare key 'pore.<property>'
\* returns a value only if the stored mole fractions of the registered
\* components sum to 1.0 at every pore.
C1_BlendOnlyWhenUnity ==
    (/\ last.op = "read"
     /\ last.key \in BareKeys
     /\ FirstSeg(last.key) = PORE
     /\ last.key \notin DOMAIN pre.store
     /\ last.err = "none")
    => AllOne(SumStored(pre.store, pre.components, Len(pre.components)))

\* ------------------------------------------------------------------------
\* C2
\* ------------------------------------------------------------------------
\* C2: mixture[K] = V fails, leaving the store as it was, exactly when K is
\* '<element>.<property>.<name>' of a registered component that owns
\* '<element>.<property>' and K is not stored on the mixture; every other
\* write stores V under K and changes no other key.
C2_WriteProtection ==
    last.op = "write" =>
        IF Protected(pre.store, pre.components, last.key)
        THEN last.err # "none" /\ store = pre.store
        ELSE /\ last.err = "none"
             /\ last.key \in DOMAIN store
             /\ store[last.key] = Broadcast(last.val, _count(FirstSeg(last.key)))
             /\ SameExcept(store, pre.store, {last.key})

\* ------------------------------------------------------------------------
\* C3
\* ------------------------------------------------------------------------
\* C3: a read of '<element>.<property>.<name>' that the mixture does not store,
\* <name> a registered component that has '<element>.<property>', returns that
\* component's value; a key the mixture stores is returned from its own store.
C3_Delegation ==
    last.op = "read" =>
        /\ Protected(pre.store, pre.components, last.key)
           => /\ last.err = "none"
              /\ last.ret = compStore[LastSeg(last.key)][RStrip(last.key)]
        /\ last.key \in DOMAIN pre.store
           => /\ last.err = "none"
              /\ last.ret = pre.store[last.key]

\* 'pore.density.A' was read from component A
C3_Witness ==
    /\ last.op = "read"
    /\ last.key = K3("pore", "density", NameA)
    /\ last.key \notin DOMAIN pre.store
    /\ InList(NameA, components)
    /\ last.err = "none"
    /\ last.ret = compStore[NameA][K2("pore", "density")]

\* ------------------------------------------------------------------------
\* C4
\* ------------------------------------------------------------------------
\* C4: after remove of one component or of a list of components, every
\* removed name is out of the registry, no stored key ends with it and
\* 'pore.mole_fraction.all' is unset.
C4_RemovalCleanup ==
    (last.op = "remove" /\ last.err = "none") =>
        /\ \A i \in 1..Len(last.names) :
              /\ ~InList(last.names[i], components)
              /\ \A k \in DOMAIN store : ~EndsWith(k, last.names[i])
        /\ MFAll \in DOMAIN store
        /\ AllNaN(store[MFAll])

\* ------------------------------------------------------------------------
\* C5
\* ------------------------------------------------------------------------
\* C5 (element pore): a read of an unstored bare key 'pore.<property>' whose
\* stored aggregate is not 1.0 everywhere, and whose recomputed aggregate is
\* still not 1.0 at some pore, fails with the composition-not-normalized
\* error, not with another error and not with a value.
C5_NotNormalizedError ==
    (/\ last.op = "read"
     /\ last.key \in BareKeys
     /\ FirstSeg(last.key) = PORE
     /\ last.key \notin DOMAIN pre.store
     /\ MFAll \in DOMAIN pre.store
     /\ ~AllOne(pre.store[MFAll])
     /\ ~AllOne(SumStored(pre.store, pre.components, Len(pre.components))))
    => last.err = "NotUnity"

\* ------------------------------------------------------------------------
\* C6
\* ------------------------------------------------------------------------
\* the mole fraction of every registered component is stored and unset
AllMoleFractionsUnset ==
    \A i \in 1..Len(components) :
        /\ MFKey(PORE, components[i]) \in DOMAIN store
        /\ AllNaN(store[MFKey(PORE, components[i])])

\* the value of the last call is stored under 'pore.concentration.<component>'
ConcentrationStored ==
    /\ ConcKey(last.comp.name) \in DOMAIN store
    /\ store[ConcKey(last.comp.name)] = Broadcast(last.val, Np)

\* C6: set_concentration with a registered component and a scalar or
\* full-length value stores the value under 'pore.concentration.<component>'
\* and leaves the mole fraction of every registered component unset.
C6_SetConcentration ==
    (last.op = "set_concentration" /\ OnRegistered /\ Len(last.val) > 0)
    => (last.err = "none" /\ ConcentrationStored /\ AllMoleFractionsUnset)

\* ------------------------------------------------------------------------
\* C7
\* ------------------------------------------------------------------------
\* C7: set_mole_fraction for a registered component stores the values, also
\* outside [0,1], changes no key but 'pore.mole_fraction.<component>' and
\* 'pore.mole_fraction.all', and leaves the aggregate equal to the sum of
\* the registered components' mole fractions.
C7_SetMoleFractionFrame ==
    (last.op = "set_mole_fraction" /\ OnRegistered /\ Len(last.val) > 0)
    => /\ last.err = "none"
       /\ SameExcept(store, pre.store, {MFKey(PORE, last.comp.name), MFAll})
       /\ MFKey(PORE, last.comp.name) \in DOMAIN store
       /\ store[MFKey(PORE, last.comp.name)] = Broadcast(last.val, Np)
       /\ MFAll \in DOMAIN store
       /\ store[MFAll] = SumStored(store, components, Len(components))

\* ------------------------------------------------------------------------
\* C8, C9, C10
\* ------------------------------------------------------------------------
\* the store of the last update_mole_fractions once free_comp is marked unset
Marked ==
    IF last.names # <<>>
    THEN DictSet(pre.store, MFKey(PORE, last.names), Full(NaN, Np))
    ELSE pre.store

\* the positions of the registered components with an unset mole fraction
UnsetComponents ==
    {i \in 1..Len(pre.components) : AnyNaN(StoredMF(Marked, pre.components[i]))}

RECURSIVE OneLess(_, _, _)
\* 1.0 less the stored mole fractions of the components reg[1..i], taken
\* away one after the other in the order of the registry
OneLess(s, reg, i) ==
    IF i = 0 THEN Full(One, Np)
    ELSE ASub(OneLess(s, reg, i - 1), StoredMF(s, reg[i]))

\* C8: update_mole_fractions with exactly one registered component unset
\* sets that component to 1 minus the others, leaves the others as they
\* were and leaves 'pore.mole_fraction.all' at 1.0 everywhere.
C8_FreeSolve ==
    (last.op = "update_mole_fractions" /\ Cardinality(UnsetComponents) = 1)
    => /\ last.err = "none"
       /\ \A i \in 1..Len(pre.components) :
             /\ MFKey(PORE, pre.components[i]) \in DOMAIN store
             /\ store[MFKey(PORE, pre.components[i])] =
                   IF i \in UnsetComponents
                   THEN OneLess(Marked, PopAt(pre.components, i),
                                Len(pre.components) - 1)
                   ELSE Marked[MFKey(PORE, pre.components[i])]
       /\ AllOne(store[MFAll])

\* the component has a concentration, on the mixture or on itself
HasConcentration(n) ==
    \/ ConcKey(n) \in DOMAIN pre.store
    \/ (n \in Project /\ K2("pore", "concentration") \in DOMAIN compStore[n])

\* the concentration a read of 'pore.concentration.<n>' finds
ConcentrationOf(n) ==
    IF ConcKey(n) \in DOMAIN pre.store THEN pre.store[ConcKey(n)]
    ELSE compStore[n][K2("pore", "concentration")]

RECURSIVE SumConcentrations(_)
\* the concentrations of the components 1..i of the registry, added to 0.0
\* one after the other
SumConcentrations(i) ==
    IF i = 0 THEN Full(Zero, Np)
    ELSE AAdd(SumConcentrations(i - 1), ConcentrationOf(pre.components[i]))

\* the example of C9: two components with concentrations 2.0 and 3.0
TwoAndThree ==
    /\ Len(pre.components) = 2
    /\ ConcentrationOf(pre.components[1]) = Full(FromInt(2), Np)
    /\ ConcentrationOf(pre.components[2]) = Full(FromInt(3), Np)

\* C9: update_mole_fractions with zero or more than one registered
\* component unset, every registered component having a concentration, sets
\* every mole fraction to the concentration over the sum of concentrations;
\* concentrations 2.0 and 3.0 of two components give mole fractions 0.4 and
\* 0.6 and an aggregate of 1.0.
C9_ConcentrationNormalize ==
    (/\ last.op = "update_mole_fractions"
     /\ Cardinality(UnsetComponents) # 1
     /\ \A i \in 1..Len(pre.components) : HasConcentration(pre.components[i]))
    => /\ last.err = "none"
       /\ \A i \in 1..Len(pre.components) :
             /\ MFKey(PORE, pre.components[i]) \in DOMAIN store
             /\ store[MFKey(PORE, pre.components[i])] =
                   ADiv(ConcentrationOf(pre.components[i]),
                        SumConcentrations(Len(pre.components)))
       /\ TwoAndThree =>
             /\ store[MFKey(PORE, pre.components[1])] = Full(Q(2, 5), Np)
             /\ store[MFKey(PORE, pre.components[2])] = Full(Q(3, 5), Np)
             /\ AllOne(store[MFAll])

\* C10: when update_mole_fractions comes to the concentrations (every
\* registered component has a mole fraction stored, zero or more than one of
\* them unset) and some registered component has no concentration, it fails
\* with the error that reports the missing concentration and overwrites no
\* mole fraction with a computed value.
C10_MissingConcentration ==
    (/\ last.op = "update_mole_fractions"
     /\ \A i \in 1..Len(pre.components) : MFKey(PORE, pre.components[i]) \in DOMAIN Marked
     /\ Cardinality(UnsetComponents) # 1
     /\ \E i \in 1..Len(pre.components) : ~HasConcentration(pre.components[i]))
    => /\ last.err = "KeyError"
       /\ \A i \in 1..Len(pre.components) :
             store[MFKey(PORE, pre.components[i])] = Marked[MFKey(PORE, pre.components[i])]

\* ------------------------------------------------------------------------
\* C11, C12
\* ------------------------------------------------------------------------
\* the calls of the public methods, no direct key read or write
NextPublic ==
    \/ Add
    \/ Remove
    \/ SetConcentration
    \/ SetMoleFraction
    \/ UpdateMoleFractions
    \/ CheckMixtureHealth
    \/ InterleaveData

SpecPublic == Init /\ [][NextPublic]_vars

\* the pores (counted from 0) where the stored mole fractions of the
\* registered components sum to less than 1.0, and to more than 1.0
SumTooLow(s, reg) == {i - 1 : i \in {j \in 1..Np : VLt(SumStored(s, reg, Len(reg))[j], One)}}
SumTooHigh(s, reg) == {i - 1 : i \in {j \in 1..Np : VLt(One, SumStored(s, reg, Len(reg))[j])}}

\* C11: check_mixture_health stores the sum of the registered components'
\* mole fractions as 'pore.mole_fraction.all' and returns too_low = the pores
\* where the sum is below 1.0 and too_high = the pores where it is above 1.0;
\* both sets are empty only when the sum is 1.0 at every pore.
C11_HealthResult ==
    last.op = "check_mixture_health" =>
        /\ last.err = "none"
        /\ MFAll \in DOMAIN store
        /\ store[MFAll] = SumStored(pre.store, pre.components, Len(pre.components))
        /\ last.ret = <<SumTooLow(pre.store, pre.components),
                        SumTooHigh(pre.store, pre.components)>>
        /\ last.ret = <<{}, {}>> => AllOne(SumStored(pre.store, pre.components, Len(pre.components)))

\* C12: check_mixture_health raises in no state that add, remove,
\* set_concentration, set_mole_fraction and update_mole_fractions calls
\* lead to.
C12_HealthNeverRaises ==
    last.op = "check_mixture_health" => last.err = "none"

\* ------------------------------------------------------------------------
\* C13, C14
\* ------------------------------------------------------------------------
\* C13: in every state the constructor and the public methods lead to, each
\* registered component has 'pore.mole_fraction.<name>' stored on the mixture.
C13_EveryComponentSeeded ==
    \A i \in 1..Len(components) : MFKey(PORE, components[i]) \in DOMAIN store

\* C14: set_concentration and set_mole_fraction on a component, object or
\* name string, that is not registered fail with the not-in-project error
\* when the project does not hold it and with the not-in-mixture error when
\* it does, and leave every key of the mixture as it was.
C14_UnregisteredTarget ==
    (/\ last.op \in {"set_concentration", "set_mole_fraction"}
     /\ ~InList(last.comp.name, pre.components))
    => /\ last.err = IF last.comp.name \in Project THEN "NotInMixture" ELSE "NotInProject"
       /\ store = pre.store

\* ------------------------------------------------------------------------
\* C15
\* ------------------------------------------------------------------------
\* no name is twice in the list
NoDuplicates(reg) == \A i, j \in 1..Len(reg) : reg[i] = reg[j] => i = j

\* C15: the registry never holds a name twice; add leaves in the registry
\* the names it held and the names given, each once, so adding a registered
\* component leaves the set of names unchanged; add changes no stored array.
C15_AddDedup ==
    /\ NoDuplicates(components)
    /\ last.op = "add" =>
          /\ Elems(components) = Elems(pre.components) \cup Elems(last.names)
          /\ store = pre.store

\* a list with a registered and an unregistered component was added to a
\* mixture that stores mole fractions
C15_Witness ==
    /\ last.op = "add"
    /\ \E i, j \in 1..Len(last.names) :
          /\ InList(last.names[i], pre.components)
          /\ ~InList(last.names[j], pre.components)
    /\ Len(components) = Len(pre.components) + 1
    /\ \E n \in Project : MFKey(PORE, n) \in DOMAIN store

\* ------------------------------------------------------------------------
\* C16
\* ------------------------------------------------------------------------
\* C16: no operation of the mixture changes the dict of a component object.
C16_ComponentsUntouched == [][compStore' = compStore]_vars

\* update_mole_fractions solved one component of several, subtracting the
\* others' mole fractions in place, and the components hold what they held
C16_Witness ==
    /\ last.op = "update_mole_fractions"
    /\ last.err = "none"
    /\ Len(pre.components) >= 2
    /\ Cardinality(UnsetComponents) = 1
    /\ compStore = ComponentData

\* ------------------------------------------------------------------------
\* C17
\* ------------------------------------------------------------------------
\* every registered component has the property
AllHave(reg, key) ==
    \A i \in 1..Len(reg) : reg[i] \in Project /\ key \in DOMAIN compStore[reg[i]]

\* the mixture stores a mole fraction of the element for every registered
\* component
AllWeighted(s, reg, element) ==
    \A i \in 1..Len(reg) : MFKey(element, reg[i]) \in DOMAIN s

RECURSIVE SumWeights(_, _, _, _)
\* element-wise sum of the element's mole fractions of the components
\* reg[1..i], added to 0.0 one after the other in the order of the registry
SumWeights(s, reg, element, i) ==
    IF i = 0 THEN Full(Zero, _count(element))
    ELSE AAdd(SumWeights(s, reg, element, i - 1), s[MFKey(element, reg[i])])

RECURSIVE WeightedSum(_, _, _, _)
\* sum over the components reg[1..i] of component[key] times the mixture's
\* '<element>.mole_fraction.<component>', added to 0.0 one after the other
\* in the order of the registry
WeightedSum(s, reg, key, i) ==
    IF i = 0 THEN Full(Zero, _count(FirstSeg(key)))
    ELSE AAdd(WeightedSum(s, reg, key, i - 1),
              AMul(compStore[reg[i]][key], s[MFKey(FirstSeg(key), reg[i])]))

\* C17: when the mixture's '<element>.mole_fraction.<component>' of the
\* registered components sum to 1.0 at every instance, a read of an unstored
\* key '<element>.<property>' returns the sum over the registered components
\* of component['<element>.<property>'] times that mole fraction if every
\* registered component has the property, and is not found if one lacks it.
C17_Blend ==
    (/\ last.op = "read"
     /\ last.key \in BareKeys
     /\ last.key \notin DOMAIN pre.store
     /\ AllWeighted(pre.store, pre.components, FirstSeg(last.key))
     /\ AllOne(SumWeights(pre.store, pre.components, FirstSeg(last.key),
                       Len(pre.components))))
    => IF AllHave(pre.components, last.key)
       THEN /\ last.err = "none"
            /\ last.ret = WeightedSum(pre.store, pre.components, last.key, Len(pre.components))
       ELSE last.err = "KeyError"

\* 'pore.density' was blended from three components, one of them at the
\* mole fraction 2.0/7.0, and differs between the two pores
C17_Witness ==
    /\ last.op = "read"
    /\ last.key = K2("pore", "density")
    /\ last.err = "none"
    /\ Len(pre.components) = 3
    /\ AllOne(SumStored(pre.store, pre.components, Len(pre.components)))
    /\ \E i \in 1..3 : StoredMF(pre.store, pre.components[i]) = Full(Q(2, 7), Np)
    /\ last.ret = WeightedSum(pre.store, pre.components, last.key, Len(pre.components))
    /\ last.ret[1] # last.ret[2]

\* ------------------------------------------------------------------------
\* C18, C19, C20
\* ------------------------------------------------------------------------
\* C18: after the constructor and after every call of a public method
\* 'pore.mole_fraction.all' is stored and is either unset (NaN) or the
\* element-wise sum of the mole fractions of the registered components.
C18_AggregateFresh ==
    /\ MFAll \in DOMAIN store
    /\ \/ AllNaN(store[MFAll])
       \/ store[MFAll] = SumStored(store, components, Len(components))

\* C19: remove deletes only keys whose last dotted segment is the name of a
\* removed component: every other key but 'pore.mole_fraction.all' is still
\* stored, with the value it had.
C19_RemoveFrame ==
    (last.op = "remove" /\ last.err = "none") =>
        \A k \in DOMAIN pre.store :
            (k # MFAll /\ ~InList(LastSeg(k), last.names))
            => (k \in DOMAIN store /\ store[k] = pre.store[k])

\* C20: every key read ends with a value or an error of its own; none
\* re-enters itself without end.
C20_ReadTerminates ==
    last.op = "read" => last.err # "RecursionError"

====
